---------------------------- MODULE Spec2Model ----------------------------
(***************************************************************************)
(* Model of src/src/calculator.py: the Calculator class (guarded add,      *)
(* subtract, multiply, divide over two stored operands) and the CLI loop   *)
(* around it (_parse_number, _ask_menu, _run_action, _ask_quit, main).     *)
(*                                                                         *)
(* Floating point.  Python's float is IEEE-754 binary64.  The model keeps  *)
(* the structure of that format (sign, MantBits-bit significand, a range   *)
(* of binades, subnormals, +/-Infinity, NaN, round-to-nearest-even,        *)
(* overflow to Infinity, underflow to zero) and scales its two sizes down: *)
(* MantBits bits of significand instead of 53 and binades 0..ExpMax        *)
(* instead of -1074..971.  A finite float is the integer number of "units" *)
(* it holds, a unit being the smallest positive subnormal; 1.0 is OneUnits *)
(* units.  The sign of zero is not modelled (-0.0 == 0.0 in every          *)
(* comparison the program makes).                                          *)
(***************************************************************************)
EXTENDS Integers, Sequences, FiniteSets, TLC

VARIABLES
    calc,      \* the Calculator instance: <<_op1, _op2>>, or <<>> before construction
    last,      \* the last Calculator method call: its name, arguments and outcome
    watch,     \* history: <<>> or <<c>>, c an earlier call kept for comparison
    pc,        \* main's position: "lib" when the class is used without main
    num1,      \* main's local op1: <<>> or <<x>>
    xloc,      \* _parse_number's local x = float(s): <<>> (ValueError) or <<x>>
    answer,    \* the line _ask_quit read
    choice,    \* main's local choice
    out,       \* what the last step printed
    res,       \* what the last _run_action call surfaced to main
    Actions,   \* ACTIONS, the registry: selection key -> <<label, symbol, method name>>
    patched    \* Calculator methods replaced by a stub that raises

vars == <<calc, last, watch, pc, num1, xloc, answer, choice, out, res, Actions, patched>>
mainVars == <<pc, num1, xloc, answer, choice, out, res, Actions, patched>>

(* ------------------------------ bounds -------------------------------- *)
\* significand bits of the scaled-down float format (binary64: 53)
MantBits == 2
\* highest binade of the scaled-down float format, in units (binary64: 971)
ExpMax == 5
\* longest line typed at a number prompt
MaxNumberLen == 3
\* longest line typed at the menu prompt
MaxChoiceLen == 2
\* longest line typed at the quit prompt
MaxAnswerLen == 2

(* --------------------------- float values ----------------------------- *)
Abs(n) == IF n < 0 THEN -n ELSE n

Fin(n) == [c |-> "fin", n |-> n]
PosInf == [c |-> "inf", n |-> 1]
NegInf == [c |-> "inf", n |-> -1]
NaN == [c |-> "nan", n |-> 0]

\* float_info.max, in units
MaxUnits == (2 ^ MantBits - 1) * 2 ^ ExpMax
\* 1.0, in units
OneUnits == 2 ^ (ExpMax \div 2)

IsRep(n) == \/ n = 0
            \/ \E k \in 0 .. ExpMax : \E m \in 1 .. (2 ^ MantBits - 1) : n = m * 2 ^ k

FinUnits == {n \in (-MaxUnits) .. MaxUnits : IsRep(Abs(n))}
Floats == {Fin(n) : n \in FinUnits} \cup {PosInf, NegInf, NaN}

MAX_FLOAT == Fin(MaxUnits)
Zero == Fin(0)
One == Fin(OneUnits)

\* the binade of the non-negative rational num/den: the largest k with
\* 2^(MantBits-1) * 2^k <= num/den, or 0 for subnormals
Binade(num, den) ==
    LET ks == {k \in 0 .. ExpMax : num >= 2 ^ (MantBits - 1) * 2 ^ k * den}
    IN IF ks = {} THEN 0 ELSE CHOOSE k \in ks : \A j \in ks : j <= k

\* round-to-nearest, ties-to-even of the non-negative rational num/den units;
\* the result is a number of units, or MaxUnits + 1 for overflow
\* m ulps and a remainder of r/d ulp: up when past the half, or at the half
\* with m odd
RoundQuotient(m, r, d, ulp) ==
    (IF 2 * r > d \/ (2 * r = d /\ m % 2 = 1) THEN m + 1 ELSE m) * ulp
RoundToUlp(num, d, ulp) == RoundQuotient(num \div d, num % d, d, ulp)
RoundUnits(num, den) ==
    IF 2 * num >= (2 * MaxUnits + 2 ^ ExpMax) * den THEN MaxUnits + 1
    ELSE RoundToUlp(num, den * 2 ^ Binade(num, den), 2 ^ Binade(num, den))

\* u units with the sign sgn; more than MaxUnits is an overflow
Signed(sgn, u) ==
    IF u > MaxUnits THEN (IF sgn < 0 THEN NegInf ELSE PosInf) ELSE Fin(sgn * u)

\* the float nearest to sgn * num/den units
Round(sgn, num, den) == Signed(sgn, RoundUnits(num, den))

Sign(n) == IF n < 0 THEN -1 ELSE 1

isfinite(x) == x.c = "fin"
isinf(x) == x.c = "inf"
isnan(x) == x.c = "nan"

\* abs(x)
FAbs(x) == IF x.c = "nan" THEN NaN ELSE [c |-> x.c, n |-> Abs(x.n)]
\* -x
FNeg(x) == IF x.c = "nan" THEN NaN ELSE [c |-> x.c, n |-> -x.n]

\* x + y
FAdd(x, y) ==
    IF isnan(x) \/ isnan(y) THEN NaN
    ELSE IF isinf(x) /\ isinf(y) THEN (IF x.n = y.n THEN x ELSE NaN)
    ELSE IF isinf(x) THEN x
    ELSE IF isinf(y) THEN y
    ELSE Round(Sign(x.n + y.n), Abs(x.n + y.n), 1)

\* x - y
FSub(x, y) == FAdd(x, FNeg(y))

\* x * y
FMul(x, y) ==
    IF isnan(x) \/ isnan(y) THEN NaN
    ELSE IF isinf(x) \/ isinf(y)
         THEN IF x.n = 0 \/ y.n = 0 THEN NaN
              ELSE [c |-> "inf", n |-> Sign(x.n) * Sign(y.n)]
    ELSE Round(Sign(x.n) * Sign(y.n), Abs(x.n) * Abs(y.n), OneUnits)

\* x / y for y != 0 (Python raises ZeroDivisionError for y == 0: see Quotient)
FDiv(x, y) ==
    IF isnan(x) \/ isnan(y) THEN NaN
    ELSE IF isinf(x) THEN (IF isinf(y) THEN NaN
                           ELSE [c |-> "inf", n |-> Sign(x.n) * Sign(y.n)])
    ELSE IF isinf(y) THEN Zero
    ELSE Round(Sign(x.n) * Sign(y.n), Abs(x.n) * OneUnits, Abs(y.n))

\* x == y, x > y, x <= y, x < y (every comparison with NaN is false)
FEq(x, y) == ~isnan(x) /\ ~isnan(y) /\ x = y
Key(x) == IF isinf(x) THEN x.n * (MaxUnits + 1) ELSE x.n
FGt(x, y) == ~isnan(x) /\ ~isnan(y) /\ Key(x) > Key(y)
FLe(x, y) == ~isnan(x) /\ ~isnan(y) /\ Key(x) <= Key(y)
FLt(x, y) == ~isnan(x) /\ ~isnan(y) /\ Key(x) < Key(y)


(* ----------------------- calculator.py: constants --------------------- *)
\* NEAR_ZERO_TOL = 1e-12, scaled: the smallest normal float, far below 1.0
NEAR_ZERO_TOL == Fin(2 ^ (MantBits - 1))
\* math.isclose's default rel_tol = 1e-09, scaled: the smallest subnormal
REL_TOL == Fin(1)

\* the tolerances divide is called with: negative, zero, the default, NaN
\* and +Infinity
Tolerances == {FNeg(One), Zero, NEAR_ZERO_TOL, NaN, PosInf}

(* ------------------------- operation outcomes ------------------------- *)
\* what a call did: returned a float, returned None (after warnings.warn
\* when warn # ""), or raised; steps lists the stages it evaluated, in order
Value(v, steps) == [kind |-> "value", val |-> v, warn |-> "", exc |-> "", steps |-> steps]
None(warn, steps) == [kind |-> "none", val |-> Zero, warn |-> warn, exc |-> "", steps |-> steps]
Raise(exc, steps) == [kind |-> "raise", val |-> Zero, warn |-> "", exc |-> exc, steps |-> steps]

NonFiniteWarning(op_name) ==
    CASE op_name = "addition" -> "addition produced a non-finite result (inf/NaN)."
      [] op_name = "subtraction" -> "subtraction produced a non-finite result (inf/NaN)."
      [] op_name = "multiplication" -> "multiplication produced a non-finite result (inf/NaN)."
      [] op_name = "division" -> "division produced a non-finite result (inf/NaN)."
MulOverflowWarning == "multiplication would overflow (|x|*|y| > max_float)."
DivOverflowWarning == "division would overflow (|x|/|y| > max_float)."
NearZeroWarning == "attempt to divide by (near) zero."

(* ------------------------- calculator.py: core ------------------------ *)
\* a faulty variant: the finiteness check forgotten
finite_or_none_unchecked(value, op_name, steps) ==
    Value(value, Append(steps, "finite_or_none"))

_finite_or_none(value, op_name, steps) ==
    IF ~isfinite(value)
    THEN None(NonFiniteWarning(op_name), Append(steps, "finite_or_none"))
    ELSE Value(value, Append(steps, "finite_or_none"))

\* isclose's last line: diff is within the relative or the absolute tolerance
Within(diff, a, b, abs_tol) ==
    \/ FLe(diff, FAbs(FMul(REL_TOL, b)))
    \/ FLe(diff, FAbs(FMul(REL_TOL, a)))
    \/ FLe(diff, abs_tol)

\* math.isclose(a, b, abs_tol=abs_tol) with the default rel_tol:
\* "raise" for a negative tolerance, else "true" or "false"
isclose(a, b, abs_tol) ==
    IF FLt(REL_TOL, Zero) \/ FLt(abs_tol, Zero) THEN "raise"
    ELSE IF FEq(a, b) THEN "true"
    ELSE IF isinf(a) \/ isinf(b) THEN "false"
    ELSE IF Within(FAbs(FSub(b, a)), a, b, abs_tol) THEN "true" ELSE "false"

\* a faulty variant: an over-eager overflow pre-check, |x| > max - |y|
add_prechecked(x, y) ==
    IF isfinite(x) /\ isfinite(y) /\ FGt(FAbs(x), FSub(MAX_FLOAT, FAbs(y)))
    THEN None(NonFiniteWarning("addition"), <<"precheck">>)
    ELSE _finite_or_none(FAdd(x, y), "addition", <<"sum">>)

\* Calculator.add
add(x, y) == _finite_or_none(FAdd(x, y), "addition", <<"sum">>)

\* Calculator.subtract
subtract(x, y) == _finite_or_none(FSub(x, y), "subtraction", <<"difference">>)

\* the condition of multiply's pre-check, as the code evaluates it
MulPrecheck(x, y) ==
    /\ isfinite(x) /\ isfinite(y)
    /\ ~FEq(FAbs(y), Zero)
    /\ FGt(FAbs(x), FDiv(MAX_FLOAT, FAbs(y)))

\* a faulty variant: no pre-check, only the check after the product
multiply_unguarded(x, y) ==
    _finite_or_none(FMul(x, y), "multiplication", <<"product">>)

\* Calculator.multiply
multiply(x, y) ==
    IF MulPrecheck(x, y) THEN None(MulOverflowWarning, <<"precheck">>)
    ELSE _finite_or_none(FMul(x, y), "multiplication",
                         IF isfinite(x) /\ isfinite(y) THEN <<"precheck", "product">>
                         ELSE <<"product">>)

\* the condition of divide's first check: ~isfinite(y) short-circuits isclose
NearZeroCheck(y, tol) ==
    IF ~isfinite(y) THEN "true" ELSE isclose(y, Zero, tol)

\* the condition of divide's overflow pre-check, as the code evaluates it
DivPrecheck(x, y) == isfinite(x) /\ FGt(FAbs(x), FMul(MAX_FLOAT, FAbs(y)))

\* x / y as Python evaluates it: ZeroDivisionError for a zero divisor
Quotient(x, y, steps) ==
    IF FEq(y, Zero) THEN Raise("ZeroDivisionError", Append(steps, "quotient"))
    ELSE _finite_or_none(FDiv(x, y), "division", Append(steps, "quotient"))

\* divide, once its first condition is evaluated to nz
DivideAfter(nz, x, y) ==
    IF nz = "raise" THEN Raise("ValueError", <<"nearzero">>)
    ELSE IF nz = "true" THEN None(NearZeroWarning, <<"nearzero">>)
    ELSE IF DivPrecheck(x, y) THEN None(DivOverflowWarning, <<"nearzero", "precheck">>)
    ELSE Quotient(x, y, <<"nearzero", "precheck">>)

\* Calculator.divide
divide(x, y, tol) == DivideAfter(NearZeroCheck(y, tol), x, y)


(* ------------------------------ strings ------------------------------- *)
\* a str is a sequence of one-character strings
Strings(chars, maxLen) == UNION {[1 .. n -> chars] : n \in 0 .. maxLen}

\* the lines typed at the three prompts
NumberChars == {" ", ",", ".", "-", "0", "1", "e", "n", "a", "i", "f"}
ChoiceChars == {" ", "1", "2", "3", "4", "9"}
AnswerChars == {" ", "y", "Y", "n"}
NumberLines == Strings(NumberChars, MaxNumberLen)
ChoiceLines == Strings(ChoiceChars, MaxChoiceLen)
AnswerLines == Strings(AnswerChars, MaxAnswerLen)

\* s.strip()
RECURSIVE lstrip(_)
lstrip(s) == IF s # <<>> /\ Head(s) = " " THEN lstrip(Tail(s)) ELSE s
RECURSIVE rstrip(_)
rstrip(s) == IF s # <<>> /\ s[Len(s)] = " " THEN rstrip(SubSeq(s, 1, Len(s) - 1)) ELSE s
strip(s) == rstrip(lstrip(s))

\* s.replace(",", ".")
replace_comma(s) == [i \in DOMAIN s |-> IF s[i] = "," THEN "." ELSE s[i]]

\* s.lower()
LowerChar(c) ==
    CASE c = "Y" -> "y" [] c = "N" -> "n" [] c = "E" -> "e" [] c = "A" -> "a"
      [] c = "I" -> "i" [] c = "F" -> "f" [] OTHER -> c
lower(s) == [i \in DOMAIN s |-> LowerChar(s[i])]

\* s.startswith(p), p one character
startswith(s, p) == s # <<>> /\ s[1] = p

IsDigit(c) == c \in {"0", "1", "2", "3", "4", "5", "6", "7", "8", "9"}
DigitVal(c) ==
    CASE c = "0" -> 0 [] c = "1" -> 1 [] c = "2" -> 2 [] c = "3" -> 3 [] c = "4" -> 4
      [] c = "5" -> 5 [] c = "6" -> 6 [] c = "7" -> 7 [] c = "8" -> 8 [] c = "9" -> 9
AllDigits(s) == \A i \in DOMAIN s : IsDigit(s[i])
RECURSIVE Nat10(_)
Nat10(s) == IF s = <<>> THEN 0
            ELSE 10 * Nat10(SubSeq(s, 1, Len(s) - 1)) + DigitVal(s[Len(s)])
IndexOf(s, c) ==
    LET is == {i \in DOMAIN s : s[i] = c}
    IN IF is = {} THEN 0 ELSE CHOOSE i \in is : \A j \in is : i <= j

\* the least k with 10^k > n (n >= 1)
Digits10(n) == CHOOSE k \in 1 .. 9 : 10 ^ k > n /\ 10 ^ (k - 1) <= n

\* the float nearest to sgn * d * 10^k (float() rounds correctly).  A power
\* of ten past the format's range is not computed: the result is then
\* Infinity, or zero
DecimalToFloat(sgn, d, k) ==
    IF d = 0 THEN Zero
    ELSE IF k >= 0
         THEN IF k >= Digits10(4 * MaxUnits) THEN (IF sgn < 0 THEN NegInf ELSE PosInf)
              ELSE Round(sgn, d * 10 ^ k * OneUnits, 1)
    ELSE IF -k >= Digits10(2 * d * OneUnits) THEN Zero
         ELSE Round(sgn, d * OneUnits, 10 ^ (-k))

Parsed(v) == [ok |-> TRUE, val |-> v]
ValueError == [ok |-> FALSE, val |-> Zero]

\* the characters of s before its first c, and those after it (<<>> when
\* there is no c)
Before(s, c) == IF IndexOf(s, c) = 0 THEN s ELSE SubSeq(s, 1, IndexOf(s, c) - 1)
After(s, c) == IF IndexOf(s, c) = 0 THEN <<>> ELSE SubSeq(s, IndexOf(s, c) + 1, Len(s))

HasSign(s) == s # <<>> /\ Head(s) \in {"+", "-"}
SignOf(s) == IF HasSign(s) /\ Head(s) = "-" THEN -1 ELSE 1
Unsigned(s) == IF HasSign(s) THEN Tail(s) ELSE s

\* a decimal literal: integer digits ip, fraction digits fp, whether it has an
\* exponent, and the exponent's characters expo
DecimalOk(ip, fp, hasExp, expo) ==
    /\ AllDigits(ip) /\ AllDigits(fp) /\ Len(ip) + Len(fp) >= 1
    /\ hasExp => (Unsigned(expo) # <<>> /\ AllDigits(Unsigned(expo)))
DecimalValue(sgn, ip, fp, expo) ==
    DecimalToFloat(sgn, Nat10(ip \o fp), SignOf(expo) * Nat10(Unsigned(expo)) - Len(fp))
ParseParts(sgn, ip, fp, hasExp, expo) ==
    IF DecimalOk(ip, fp, hasExp, expo) THEN Parsed(DecimalValue(sgn, ip, fp, expo))
    ELSE ValueError
ParseMantissa(sgn, mant, hasExp, expo) ==
    ParseParts(sgn, Before(mant, "."), After(mant, "."), hasExp, expo)

\* float(s) for an unsigned decimal literal: digits, an optional point, an
\* optional exponent
ParseDecimal(sgn, t) ==
    ParseMantissa(sgn, Before(t, "e"), IndexOf(t, "e") # 0, After(t, "e"))

ParseBody(sgn, body) ==
    IF body \in {<<"i", "n", "f">>, <<"i", "n", "f", "i", "n", "i", "t", "y">>}
    THEN Parsed(IF sgn < 0 THEN NegInf ELSE PosInf)
    ELSE IF body = <<"n", "a", "n">> THEN Parsed(NaN)
    ELSE ParseDecimal(sgn, body)
ParseSigned(t) == ParseBody(SignOf(t), Unsigned(t))

\* float(s): surrounding whitespace, a sign, then inf, infinity or nan in any
\* case, or a decimal literal; anything else is a ValueError
float(s) == ParseSigned(lower(strip(s)))

(* ------------------- calls on one Calculator instance ----------------- *)
NoOutcome == [kind |-> "", val |-> Zero, warn |-> "", exc |-> "", steps |-> <<>>]
NoCall == [op |-> "", args |-> <<>>, r |-> NoOutcome]
Call(op, args, r) == [op |-> op, args |-> args, r |-> r]

\* the registry of calculator.py
StdActions ==
    (<<"1">> :> <<"Addition", "+", "add">>) @@
    (<<"2">> :> <<"Subtraction", "-", "subtract">>) @@
    (<<"3">> :> <<"Multiplication", "*", "multiply">>) @@
    (<<"4">> :> <<"Division", "/", "divide">>)

NoResult == [kind |-> "", val |-> Zero, exc |-> ""]

\* a faulty variant: add keeps its result as the first operand (an accumulator)
CallAddAccumulate ==
    /\ pc = "lib"
    /\ last' = Call("add", <<>>, add(calc[1], calc[2]))
    /\ calc' = IF last'.r.kind = "value" THEN <<last'.r.val, calc[2]>> ELSE calc
    /\ UNCHANGED mainVars

\* c.add()
CallAdd ==
    /\ pc = "lib"
    /\ last' = Call("add", <<>>, add(calc[1], calc[2]))
    /\ UNCHANGED <<calc, mainVars>>

\* c.subtract()
CallSubtract ==
    /\ pc = "lib"
    /\ last' = Call("subtract", <<>>, subtract(calc[1], calc[2]))
    /\ UNCHANGED <<calc, mainVars>>

\* c.multiply()
CallMultiply ==
    /\ pc = "lib"
    /\ last' = Call("multiply", <<>>, multiply(calc[1], calc[2]))
    /\ UNCHANGED <<calc, mainVars>>

\* c.divide(tol); c.divide() is c.divide(NEAR_ZERO_TOL)
CallDivide(tol) ==
    /\ pc = "lib"
    /\ last' = Call("divide", <<tol>>, divide(calc[1], calc[2], tol))
    /\ UNCHANGED <<calc, mainVars>>

\* Calculator(op1, op2), with any two floats
InitLib ==
    /\ calc \in Floats \X Floats
    /\ last = NoCall
    /\ watch = <<>>
    /\ pc = "lib"
    /\ num1 = <<>>
    /\ xloc = <<>>
    /\ answer = <<>>
    /\ choice = <<>>
    /\ out = <<>>
    /\ res = NoResult
    /\ Actions = StdActions
    /\ patched = {}

Init == InitLib

Next ==
    \/ CallAdd /\ UNCHANGED watch
    \/ CallSubtract /\ UNCHANGED watch
    \/ CallMultiply /\ UNCHANGED watch
    \/ \E tol \in Tolerances : CallDivide(tol) /\ UNCHANGED watch

Spec == Init /\ [][Next]_vars

\* keep an earlier call c to compare later ones with; mixed: a call of another
\* operation, or of divide with another tolerance, has run since
SameCall(c, d) == c.op = d.op /\ c.args = d.args
Remember ==
    IF watch = <<>>
    THEN watch' \in {<<>>, <<[c |-> last', mixed |-> FALSE]>>}
    ELSE watch' = <<[c |-> watch[1].c,
                     mixed |-> watch[1].mixed \/ ~SameCall(last', watch[1].c)]>>

NextSeq ==
    \/ CallAdd /\ Remember
    \/ CallSubtract /\ Remember
    \/ CallMultiply /\ Remember
    \/ \E tol \in Tolerances : CallDivide(tol) /\ Remember

SpecSeq == Init /\ [][NextSeq]_vars

(* --------------------------- calculator.py: CLI ----------------------- *)
Msg(text) == [msg |-> text, sym |-> "", val |-> Zero]
ResultMsg(symbol, v) == [msg |-> "RESULT", sym |-> symbol, val |-> v]
NotANumberError == Msg("Error: Not a Number or Infinity are not allowed. Try again.")
BadNumberError == Msg("Error: enter a correct number (e.g., 3.14).")
IncorrectSelection == Msg("Incorrect selection. Select 1-4.")
NotImplementedError == Msg("Internal error: operation not implemented.")
UnexpectedError == Msg("An unexpected error has occurred: boom")

\* a faulty variant: no isfinite check on the parsed number
parsed_unchecked(x) ==
    IF ~x.ok THEN [x |-> <<>>, ret |-> <<>>, out |-> <<BadNumberError>>]
    ELSE [x |-> <<x.val>>, ret |-> <<x.val>>, out |-> <<>>]

\* _parse_number after x = float(s), the ValueError included
AfterFloat(x) ==
    IF ~x.ok THEN [x |-> <<>>, ret |-> <<>>, out |-> <<BadNumberError>>]
    ELSE IF ~isfinite(x.val)
         THEN [x |-> <<x.val>>, ret |-> <<>>, out |-> <<NotANumberError>>]
    ELSE [x |-> <<x.val>>, ret |-> <<x.val>>, out |-> <<>>]

\* one turn of _parse_number's loop on the line ln: x is float(s) (<<>> for a
\* ValueError), ret the returned number (<<>> when the loop goes round again)
_parse_number(ln) == AfterFloat(float(replace_comma(strip(ln))))

\* _ask_menu, given the line read
_ask_menu(ln) == strip(ln)

\* _ask_quit, given the line read
_ask_quit(ln) == startswith(lower(strip(ln)), "y")

\* the methods class Calculator defines
Methods == {"add", "subtract", "multiply", "divide"}

\* func(): the bound method called with no argument (divide: the default
\* tolerance); a patched method raises
Invoke(cl, method_name, stubs) ==
    IF method_name \in stubs THEN Call(method_name, <<>>, Raise("RuntimeError", <<>>))
    ELSE CASE method_name = "add" -> Call("add", <<>>, add(cl[1], cl[2]))
           [] method_name = "subtract" -> Call("subtract", <<>>, subtract(cl[1], cl[2]))
           [] method_name = "multiply" -> Call("multiply", <<>>, multiply(cl[1], cl[2]))
           [] method_name = "divide" ->
                Call("divide", <<NEAR_ZERO_TOL>>, divide(cl[1], cl[2], NEAR_ZERO_TOL))

Returned(v) == [kind |-> "value", val |-> v, exc |-> ""]
ReturnedNone == [kind |-> "none", val |-> Zero, exc |-> ""]
Raised(exc) == [kind |-> "raise", val |-> Zero, exc |-> exc]

\* _run_action after result = func(): c is the call made
AfterCall(c, symbol) ==
    IF c.r.kind = "raise" THEN [res |-> Raised(c.r.exc), out |-> <<>>, call |-> c]
    ELSE IF c.r.kind = "value"
         THEN [res |-> Returned(c.r.val), out |-> <<ResultMsg(symbol, c.r.val)>>, call |-> c]
    ELSE [res |-> ReturnedNone, out |-> <<>>, call |-> c]

\* a faulty variant: a missing method is passed over in silence
run_action_silent(cl, ch, registry, stubs) ==
    IF ch \notin DOMAIN registry
    THEN [res |-> ReturnedNone, out |-> <<IncorrectSelection>>, call |-> NoCall]
    ELSE IF registry[ch][3] \notin Methods
         THEN [res |-> ReturnedNone, out |-> <<>>, call |-> NoCall]
    ELSE AfterCall(Invoke(cl, registry[ch][3], stubs), registry[ch][2])

\* _run_action(calc, choice): what it surfaces to its caller (res), what it
\* prints (out) and the method call it made (call)
_run_action(cl, ch, registry, stubs) ==
    IF ch \notin DOMAIN registry
    THEN [res |-> ReturnedNone, out |-> <<IncorrectSelection>>, call |-> NoCall]
    ELSE IF registry[ch][3] \notin Methods
         THEN [res |-> ReturnedNone, out |-> <<NotImplementedError>>, call |-> NoCall]
    ELSE AfterCall(Invoke(cl, registry[ch][3], stubs), registry[ch][2])

\* the registry with the entry the tests add: a key whose method is missing
PatchedActions == StdActions @@ (<<"9">> :> <<"Weird", "?", "not_implemented">>)

\* main starts: nothing read yet.  The registry and the methods are those of
\* calculator.py, or patched as tests/test_calculator.py patches them
InitMain ==
    /\ calc = <<>>
    /\ last = NoCall
    /\ watch = <<>>
    /\ pc = "op1"
    /\ num1 = <<>>
    /\ xloc = <<>>
    /\ answer = <<>>
    /\ choice = <<>>
    /\ out = <<>>
    /\ res = NoResult
    /\ \E cfg \in {<<StdActions, {}>>, <<PatchedActions, {}>>, <<StdActions, {"add"}>>} :
        /\ Actions = cfg[1]
        /\ patched = cfg[2]

\* op1 = _parse_number(...): one turn of its loop, p what the turn did
ReadOp1Turn(p) ==
    /\ xloc' = p.x
    /\ out' = p.out
    /\ num1' = p.ret
    /\ pc' = IF p.ret = <<>> THEN "op1" ELSE "op2"
    /\ answer' = <<>>
    /\ UNCHANGED <<calc, last, watch, choice, res, Actions, patched>>

ReadOp1 ==
    /\ pc = "op1"
    /\ \E ln \in NumberLines : ReadOp1Turn(_parse_number(ln))

\* op2 = _parse_number(...): one turn of its loop; calc = Calculator(op1, op2)
ReadOp2Turn(p) ==
    /\ xloc' = p.x
    /\ out' = p.out
    /\ calc' = IF p.ret = <<>> THEN calc ELSE <<num1[1], p.ret[1]>>
    /\ pc' = IF p.ret = <<>> THEN "op2" ELSE "menu"
    /\ UNCHANGED <<last, watch, num1, answer, choice, res, Actions, patched>>

ReadOp2 ==
    /\ pc = "op2"
    /\ \E ln \in NumberLines : ReadOp2Turn(_parse_number(ln))

\* choice = _ask_menu()
AskMenu ==
    /\ pc = "menu"
    /\ \E ln \in ChoiceLines : choice' = _ask_menu(ln)
    /\ pc' = "run"
    /\ out' = <<Msg("Select an action by entering the number:")>>
    /\ UNCHANGED <<calc, last, watch, num1, xloc, answer, res, Actions, patched>>

\* a faulty variant: _run_action called outside any try, so an exception ends main
Uncaught(a) ==
    /\ res' = a.res
    /\ last' = a.call
    /\ out' = a.out
    /\ pc' = IF a.res.kind = "raise" THEN "done" ELSE "quit"
    /\ choice' = <<>>
    /\ UNCHANGED <<calc, watch, num1, xloc, answer, Actions, patched>>

\* try: _run_action(calc, choice) except Exception as e: print(...), a what
\* _run_action did
TryExcept(a) ==
    /\ res' = a.res
    /\ last' = a.call
    /\ out' = IF a.res.kind = "raise" THEN a.out \o <<UnexpectedError>> ELSE a.out
    /\ pc' = "quit"
    /\ choice' = <<>>
    /\ UNCHANGED <<calc, watch, num1, xloc, answer, Actions, patched>>

RunAction ==
    /\ pc = "run"
    /\ TryExcept(_run_action(calc, choice, Actions, patched))

\* if _ask_quit(): break, quit what _ask_quit returned.  The locals of the
\* round that ends are dead (the next round assigns each before it reads
\* it): the model forgets them
QuitOrNot(quit) ==
    /\ pc' = IF quit THEN "done" ELSE "op1"
    /\ out' = IF quit THEN <<Msg("GOOD BYE! / SEE YOU LATER ALLIGATOR!!!")>> ELSE <<>>
    /\ calc' = <<>>
    /\ num1' = <<>>
    /\ xloc' = <<>>
    /\ last' = NoCall
    /\ res' = NoResult
    /\ UNCHANGED <<watch, choice, Actions, patched>>

AskQuit ==
    /\ pc = "quit"
    /\ \E ln \in AnswerLines : answer' = ln /\ QuitOrNot(_ask_quit(ln))

NextMain ==
    \/ ReadOp1
    \/ ReadOp2
    \/ AskMenu
    \/ RunAction
    \/ AskQuit

SpecMain == InitMain /\ [][NextMain]_vars

(* ------------------------------- claims ------------------------------- *)
X == calc[1]
Y == calc[2]
Called(op) == last.op = op
DefaultTol == last.args = <<NEAR_ZERO_TOL>>

\* C1: whatever the two operands are (finite or not), a call of add, subtract,
\* multiply or divide (divide with its default tolerance) returns either a
\* finite value or None after a warning; and no call, with any tolerance,
\* returns a non-finite value or returns None without a warning.
C1_TaggedOutcome ==
    last.op # "" =>
        /\ (Called("divide") => DefaultTol) => last.r.kind \in {"value", "none"}
        /\ last.r.kind = "value" => isfinite(last.r.val) /\ last.r.warn = ""
        /\ last.r.kind = "none" => last.r.warn # ""

\* C1 witness: a sum of two finite operands that overflows is returned as None
\* with the non-finite warning
C1_Witness ==
    /\ Called("add") /\ isfinite(X) /\ isfinite(Y)
    /\ ~isfinite(FAdd(X, Y))
    /\ last.r.kind = "none" /\ last.r.warn = NonFiniteWarning("addition")

NearZeroDivisor(y, tol) ==
    \/ ~isfinite(y)
    \/ y = Zero
    \/ FLt(FAbs(y), tol)

\* C2: for every dividend and every divisor that is 0, NaN, +/-Infinity or has
\* |y| < tol, divide(tol) returns None with the near-zero warning, decided by
\* the first check alone (neither the overflow pre-check nor the quotient is
\* evaluated).
C2_NearZeroFirst ==
    (Called("divide") /\ NearZeroDivisor(Y, last.args[1])) =>
        last.r = None(NearZeroWarning, <<"nearzero">>)

\* C2 for the tolerances math.isclose accepts (not negative): holds
C2_NearZeroFirstValidTol ==
    (Called("divide") /\ NearZeroDivisor(Y, last.args[1]) /\ ~FLt(last.args[1], Zero)) =>
        last.r = None(NearZeroWarning, <<"nearzero">>)

DivOverflowCase ==
    /\ isfinite(X) /\ isfinite(Y) /\ X # Zero /\ Y # Zero
    /\ FGt(FAbs(X), FMul(MAX_FLOAT, FAbs(Y)))

\* C3: for finite, nonzero x and y with |x| > MAX_FLOAT * |y|, divide with the
\* default tolerance returns None with the overflow warning.
C3_DivOverflowDiagnostic ==
    (Called("divide") /\ DefaultTol /\ DivOverflowCase) =>
        (last.r.kind = "none" /\ last.r.warn = DivOverflowWarning)

\* C3 outside the near-zero band (|y| > NEAR_ZERO_TOL): holds
C3_DivOverflowOutsideBand ==
    (Called("divide") /\ DefaultTol /\ DivOverflowCase /\ FGt(FAbs(Y), NEAR_ZERO_TOL)) =>
        (last.r.kind = "none" /\ last.r.warn = DivOverflowWarning)

MulOverflowCase ==
    /\ isfinite(X) /\ isfinite(Y) /\ X # Zero /\ Y # Zero
    /\ FGt(FAbs(X), FDiv(MAX_FLOAT, FAbs(Y)))

\* C4: for finite, nonzero x and y with |x| > MAX_FLOAT / |y| (the quotient as
\* the program computes it), multiply returns None with the overflow warning
\* from the pre-check: the product is not among the stages it evaluated.
C4_MulPrecheck ==
    (Called("multiply") /\ MulOverflowCase) =>
        /\ last.r.kind = "none" /\ last.r.warn = MulOverflowWarning
        /\ \A i \in DOMAIN last.r.steps : last.r.steps[i] # "product"

\* C4 witness: float_info.max * 2.0 is rejected by the pre-check
C4_Witness ==
    /\ Called("multiply") /\ X = MAX_FLOAT /\ Y = Fin(2 * OneUnits)
    /\ last.r = None(MulOverflowWarning, <<"precheck">>)

\* the exact sum and difference of two finite operands, in units
ExactSum == X.n + Y.n
ExactDiff == X.n - Y.n
\* an exact result that is a float: returned as it is
Exactly(s) == Abs(s) <= MaxUnits /\ IsRep(Abs(s)) => last.r = Value(Fin(s), last.r.steps)
\* an exact result within [-MAX_FLOAT, MAX_FLOAT]: never rejected
InRange(s) == Abs(s) <= MaxUnits => last.r.kind = "value"

\* C5: for finite x and y, add returns the float sum x + y when it is finite
\* and otherwise None with the non-finite warning, and subtract does the same
\* for x - y; a sum or difference within the finite range is never rejected,
\* and one that is itself a float is returned exactly.
C5_AddSubtract ==
    (isfinite(X) /\ isfinite(Y)) =>
        /\ Called("add") =>
            /\ (isfinite(FAdd(X, Y)) => last.r.kind = "value" /\ last.r.val = FAdd(X, Y))
            /\ (~isfinite(FAdd(X, Y)) =>
                    last.r.kind = "none" /\ last.r.warn = NonFiniteWarning("addition"))
            /\ Exactly(ExactSum) /\ InRange(ExactSum)
        /\ Called("subtract") =>
            /\ (isfinite(FSub(X, Y)) => last.r.kind = "value" /\ last.r.val = FSub(X, Y))
            /\ (~isfinite(FSub(X, Y)) =>
                    last.r.kind = "none" /\ last.r.warn = NonFiniteWarning("subtraction"))
            /\ Exactly(ExactDiff) /\ InRange(ExactDiff)

\* C5 witness: a difference of two finite operands that overflows
C5_Witness ==
    /\ Called("subtract") /\ X = MAX_FLOAT /\ Y = FNeg(MAX_FLOAT)
    /\ last.r.kind = "none" /\ last.r.warn = NonFiniteWarning("subtraction")

\* C6: for every operand pair and every tolerance (zero and negative ones
\* included) the four operations return normally and never raise.
C6_NeverRaises == last.r.kind # "raise"

\* C6, its last part: the quotient x / y is never evaluated with y = 0
C6_NoZeroQuotient == last.r.exc # "ZeroDivisionError"


\* an earlier call of the same operation with the same tolerance had the
\* same outcome
C7_SameOutcome ==
    (watch # <<>> /\ SameCall(watch[1].c, last)) => watch[1].c.r = last.r

\* C7: over any sequence of calls on one instance the stored operands never
\* change, and a call repeated with the same tolerance has the outcome of the
\* earlier call, whatever ran in between.
C7_Pure == [](C7_SameOutcome) /\ [][calc' = calc]_vars

\* C7 witness: divide with the default tolerance returned a value, other calls
\* ran, and divide with the default tolerance was called again
C7_Witness ==
    /\ watch # <<>> /\ watch[1].mixed
    /\ SameCall(watch[1].c, last) /\ Called("divide") /\ DefaultTol
    /\ last.r.kind = "value"


\* the selection resolves to a registered method that Calculator lacks / has
Unimplemented == choice \in DOMAIN Actions /\ Actions[choice][3] \notin Methods
Resolved == choice \in DOMAIN Actions /\ Actions[choice][3] \in Methods

\* C8 as stated: for a selection whose registered method is missing,
\* _run_action surfaces to its caller something other than what it surfaces
\* when a resolved operation returns invalid (which is the return value None).
C8_FaultDistinctFromNone ==
    [][(pc = "run" /\ Unimplemented) => res' # ReturnedNone]_vars

\* C8 amended: _run_action returns None in both cases; they differ in the
\* diagnostics alone.  The missing method prints "Internal error: operation
\* not implemented.", calls nothing and warns of nothing; the invalid result
\* prints nothing and carries the warning of the operation called.
C8_DistinctDiagnostics ==
    [][pc = "run" =>
        /\ Unimplemented =>
            (res' = ReturnedNone /\ out' = <<NotImplementedError>> /\ last' = NoCall)
        /\ (Resolved /\ last'.r.kind = "none") =>
            (res' = ReturnedNone /\ out' = <<>> /\ last'.r.warn # "")]_vars

\* C8 witness: the missing method has been reported and None returned
C8_Witness ==
    /\ pc = "quit" /\ res = ReturnedNone
    /\ out = <<NotImplementedError>> /\ last = NoCall

\* every number main holds is finite
C9_OperandsFinite ==
    /\ num1 # <<>> => isfinite(num1[1])
    /\ calc # <<>> => isfinite(calc[1]) /\ isfinite(calc[2])

\* a turn of _parse_number whose float(s) failed or was not finite prints an
\* error and stays at the same prompt, nothing returned
C9_Reprompt ==
    (pc \in {"op1", "op2"} /\ (xloc' = <<>> \/ ~isfinite(xloc'[1]))) =>
        /\ pc' = pc
        /\ out' = (IF xloc' = <<>> THEN <<BadNumberError>> ELSE <<NotANumberError>>)
        /\ calc' = calc
        /\ (pc = "op2" => num1' = num1)
        /\ (pc = "op1" => num1' = <<>>)

\* C9: in every execution of main each Calculator is built from two finite
\* operands: _parse_number returns only finite numbers, and on an unparsable,
\* NaN or infinite input it reports an error and prompts again.
C9_FiniteOperands == [](C9_OperandsFinite) /\ [][C9_Reprompt]_vars

\* C9 witness: the second number typed was infinite and was refused
C9_Witness ==
    /\ pc = "op2" /\ num1 # <<>>
    /\ xloc # <<>> /\ isinf(xloc[1])
    /\ out = <<NotANumberError>> /\ calc = <<>>

\* the answer's first non-blank character is y or Y
AnswersYes(ln) ==
    \E i \in DOMAIN ln : /\ ln[i] \in {"y", "Y"}
                         /\ \A j \in 1 .. (i - 1) : ln[j] = " "

\* the order of a round's steps
C10_Order ==
    /\ pc = "op1" => pc' \in {"op1", "op2"}
    /\ pc = "op2" => pc' \in {"op2", "menu"}
    /\ pc = "menu" => pc' = "run"
    /\ pc = "run" => pc' = "quit"
    /\ pc = "quit" => pc' \in {"op1", "done"}
    /\ pc # "done"

\* main ends exactly on a yes at the quit prompt
C10_QuitOnYes == (pc' = "done") <=> (pc = "quit" /\ AnswersYes(answer'))

\* the Calculator of a round holds the two numbers read in that round
C10_FreshOperands ==
    /\ (pc = "op1" /\ pc' = "op2") => num1' = xloc'
    /\ (pc = "op2" /\ pc' = "menu") => calc' = <<num1[1], xloc'[1]>>
    /\ (pc = "quit" /\ pc' = "op1") => (num1' = <<>> /\ calc' = <<>>)

\* what _run_action does with the selection read: it returns a number, returns
\* None, or raises, and in each case main has a next step
C10_RunOutcome ==
    pc = "run" =>
        _run_action(calc, choice, Actions, patched).res.kind \in {"value", "none", "raise"}

\* C10: main's rounds go read op1, read op2, menu, run action, ask quit; once
\* the selection is read, _run_action's outcome (a number, None for an invalid
\* selection or an invalid result, or an exception) is followed by the quit
\* prompt and by nothing else; main ends exactly after a quit answer starting
\* with y or Y, and otherwise reads fresh operands.
C10_Rounds ==
    /\ [][C10_Order /\ C10_QuitOnYes /\ C10_FreshOperands]_vars
    /\ []C10_RunOutcome

\* C10 witness: the operation raised, main reported it, and asks whether to quit
C10_Witness ==
    /\ pc = "quit" /\ res.kind = "raise"
    /\ out = <<UnexpectedError>>

=============================================================================
